---------------------------- MODULE Spec2Model ----------------------------
(***************************************************************************)
(* A model of src/main.py, the dashcam video compiler: argument parsing,   *)
(* the date filter, the clip planning loop of main(), get_random_clip,     *)
(* compile_clips and the top-level exception handlers.                     *)
(*                                                                         *)
(* Times are whole seconds.  A path is a sequence of one-character         *)
(* strings.  The external tools (ffprobe, ffmpeg, the file system, the     *)
(* user) are the environment: every outcome they can produce is a          *)
(* nondeterministic choice of the action that calls them.                  *)
(***************************************************************************)
EXTENDS Integers, Sequences, FiniteSets, TLC

VARIABLES
    pc,              \* where the process is
    target_duration, \* args.duration as handed to main()
    start_date,      \* args.start_date_parsed
    end_date,        \* args.end_date_parsed
    files_in,        \* the list get_mp4_files returned (the filter's input)
    mp4_files,       \* the candidate pool after the date filter
    selected_files,  \* random.sample(mp4_files, num_files_to_select)
    idx,             \* number of sampled files the loop has processed
    clips,           \* accepted temporary clip paths, in order
    total_duration,  \* running total of the re-measured clip durations
    skipped_count,   \* number of sampled files get_random_clip gave up on
    disk,            \* temp clip name -> "absent", "empty" (zero bytes) or "clip"
    manifest,        \* clips.txt: NoManifest, or the list of clips written
    output,          \* the compiled file: "absent", "empty" or "ok"
    error,           \* the message of the exception that ended the run, or ""
    req,             \* the extraction get_random_clip is about to run
    last,            \* history: how the last loop iteration ended
    clean            \* history: every iteration so far accepted a 3..5s clip as requested

vars == << pc, target_duration, start_date, end_date, files_in, mp4_files,
           selected_files, idx, clips, total_duration, skipped_count, disk,
           manifest, output, error, req, last, clean >>

---------------------------------------------------------------------------
(* Bounds of the model. *)

\* number of files the scanned directory holds, at most
MaxFiles == 2
\* largest target duration given on the command line or typed at the prompt
MaxTarget == 7
\* the most negative duration given or typed is -MaxNeg
MaxNeg == 8
\* number of distinct temp_clip_<n>.mp4 names random.randint draws from
MaxTempNames == 2
\* longest source duration ffprobe reports
MaxSourceDur == 5
\* a produced clip's real duration differs from the requested one by at most this
Jitter == 1
\* longest input list of the date filter when it is checked on its own
MaxFilterLen == 2

---------------------------------------------------------------------------
(* Program constants. *)

ClipMin == 3
ClipMax == 5
RandIntLo == 1000
DefaultDuration == 30
MinYear == 1

\* get_video_duration's None
Unknown == -1
NoDate == << >>
NoManifest == << "no clips.txt" >>
NoReq == [d |-> 0, len |-> 0, start |-> 0, name |-> 0]

Min(a, b) == IF a <= b THEN a ELSE b

\* Python's int() of a quotient: truncation toward zero
IntTrunc(a, b) == IF a >= 0 THEN a \div b ELSE -((-a) \div b)

TempNames == RandIntLo .. (RandIntLo + MaxTempNames - 1)

---------------------------------------------------------------------------
(* Dates and file names. *)

DigitVal ==
    [c \in {"0", "1", "2", "3", "4", "5", "6", "7", "8", "9"} |->
        CASE c = "0" -> 0 [] c = "1" -> 1 [] c = "2" -> 2 [] c = "3" -> 3
          [] c = "4" -> 4 [] c = "5" -> 5 [] c = "6" -> 6 [] c = "7" -> 7
          [] c = "8" -> 8 [] c = "9" -> 9]

isdigit(s) == \A i \in 1..Len(s) : s[i] \in DOMAIN DigitVal

RECURSIVE LastSlash(_, _)
LastSlash(p, i) ==
    IF i = 0 THEN 0
    ELSE IF p[i] = "/" THEN i ELSE LastSlash(p, i - 1)

\* os.path.basename: what follows the last separator
basename(p) == SubSeq(p, LastSlash(p, Len(p)) + 1, Len(p))

IsLeap(y) == (y % 4 = 0 /\ y % 100 # 0) \/ y % 400 = 0

DaysInMonth(y, m) ==
    IF m = 2 THEN (IF IsLeap(y) THEN 29 ELSE 28)
    ELSE IF m \in {4, 6, 9, 11} THEN 30 ELSE 31

\* datetime.strptime(date_str, '%Y%m%d').date() on eight digits: the date, or
\* NoDate where strptime raises ValueError
strptime(s) ==
    LET y == 1000 * DigitVal[s[1]] + 100 * DigitVal[s[2]]
               + 10 * DigitVal[s[3]] + DigitVal[s[4]]
        m == 10 * DigitVal[s[5]] + DigitVal[s[6]]
        d == 10 * DigitVal[s[7]] + DigitVal[s[8]]
    IN  IF y >= MinYear /\ m >= 1 /\ m <= 12 /\ d >= 1 /\ d <= DaysInMonth(y, m)
        THEN << y, m, d >>
        ELSE NoDate

extract_date_from_filename(filename) ==
    LET b == basename(filename)
    IN  IF Len(b) >= 8 /\ isdigit(SubSeq(b, 1, 8))
        THEN strptime(SubSeq(b, 1, 8))
        ELSE NoDate

\* a < b on datetime.date values
DateLess(a, b) ==
    \/ a[1] < b[1]
    \/ a[1] = b[1] /\ a[2] < b[2]
    \/ a[1] = b[1] /\ a[2] = b[2] /\ a[3] < b[3]

\* variant: a file dated on a bound is dropped too
include_file_exclusive(file_date, sd, ed) ==
    /\ ~(sd # NoDate /\ ~DateLess(sd, file_date))
    /\ ~(ed # NoDate /\ ~DateLess(file_date, ed))

include_file(file_date, sd, ed) ==
    /\ ~(sd # NoDate /\ DateLess(file_date, sd))
    /\ ~(ed # NoDate /\ DateLess(ed, file_date))

RECURSIVE filter_files_by_date_range(_, _, _)
filter_files_by_date_range(files, sd, ed) ==
    IF files = << >> THEN << >>
    ELSE LET file_path == Head(files)
             file_date == extract_date_from_filename(file_path)
             rest == filter_files_by_date_range(Tail(files), sd, ed)
         IN  IF file_date = NoDate THEN << file_path >> \o rest
             ELSE IF include_file(file_date, sd, ed)
                  THEN << file_path >> \o rest
                  ELSE rest

---------------------------------------------------------------------------
(* The file names the model scans and filters. *)

DigitChar == << "0", "1", "2", "3", "4", "5", "6", "7", "8", "9" >>

Digits2(n) == << DigitChar[((n \div 10) % 10) + 1], DigitChar[(n % 10) + 1] >>

Digits4(n) == Digits2(n \div 100) \o Digits2(n % 100)

Digits8(g) == Digits4(g[1]) \o Digits2(g[2]) \o Digits2(g[3])

\* a recording named YYYYMMDDHHMMSS_*: the date, then more digits
DatedName(g) == Digits8(g) \o << "0", "_" >>

\* year, month, day written into a file name; some are no calendar date
Gens ==
    { << 2024, 2, 27 >>, << 2024, 2, 28 >>, << 2024, 2, 29 >>, << 2024, 3, 1 >>,
      << 2023, 2, 28 >>, << 2023, 2, 29 >>, << 2024, 2, 30 >>, << 2024, 4, 30 >>,
      << 2024, 4, 31 >>, << 2024, 13, 1 >>, << 2024, 0, 10 >>, << 2024, 1, 0 >>,
      << 0, 1, 1 >>, << 1900, 2, 29 >>, << 2000, 2, 29 >> }

\* names without a date prefix: too short, not numeric, and a dated directory
\* holding an undated file
UndatedNames ==
    { << "2", "0", "2", "4", "0", "2", "2" >>,
      << "x", "2", "0", "2", "4", "0", "2", "2", "7" >>,
      << "2", "0", "2", "4", "_", "0", "2", "2", "7" >>,
      DatedName(<< 2024, 2, 27 >>) \o << "/", "c", "l", "i", "p" >> }

\* a dated file below an undated directory, and a name of eight digits only
NestedNames ==
    { << "d", "/" >> \o DatedName(<< 2024, 2, 27 >>), Digits8(<< 2024, 3, 1 >>) }

FilterNames == { DatedName(g) : g \in Gens } \cup UndatedNames \cup NestedNames

FilterBounds == { NoDate, << 2024, 2, 28 >>, << 2024, 2, 29 >> }

SeqsUpTo(S, n) == UNION { [1..k -> S] : k \in 0..n }

\* what the scanned directory of a full run holds: its first k files
Catalogue ==
    << DatedName(<< 2024, 2, 28 >>),
       << "c", "l", "i", "p" >>,
       DatedName(<< 2024, 3, 1 >>),
       DatedName(<< 2024, 2, 29 >>),
       << "d", "/", "x" >>,
       DatedName(<< 2024, 2, 27 >>) >>

Listing(k) == [i \in 1..k |-> Catalogue[((i - 1) % Len(Catalogue)) + 1] \o Digits2(i)]

\* the --start-date and --end-date of a full run, as parse_date_input returns them
ArgDates == { << NoDate, NoDate >>, << << 2024, 2, 29 >>, << 2024, 2, 29 >> >> }

---------------------------------------------------------------------------
(* Initial states. *)

Blank ==
    /\ target_duration = 0
    /\ mp4_files = << >>
    /\ selected_files = << >>
    /\ idx = 0
    /\ clips = << >>
    /\ total_duration = 0
    /\ skipped_count = 0
    /\ disk = [n \in TempNames |-> "absent"]
    /\ manifest = NoManifest
    /\ output = "absent"
    /\ error = ""
    /\ req = NoReq
    /\ last = "none"
    /\ clean = TRUE

\* the process starts in parse_arguments
Init ==
    /\ pc = "parse"
    /\ start_date = NoDate
    /\ end_date = NoDate
    /\ files_in = << >>
    /\ Blank

---------------------------------------------------------------------------
(* parse_arguments and the duration prompt. *)

\* validate_duration: float(value) must succeed and be > 0
validate_duration(typed) == typed.text = "number" /\ typed.val > 0

\* what the user can type at "Enter the target duration in seconds"
TypedInputs ==
    { [text |-> "number", val |-> v] : v \in (-MaxNeg)..MaxTarget }
        \cup { [text |-> "empty", val |-> 0], [text |-> "junk", val |-> 0] }

\* get_user_input: an empty line stands for the default
WithDefault(typed) ==
    IF typed.text = "empty" THEN [text |-> "number", val |-> DefaultDuration]
    ELSE typed

\* --duration given: argparse's type=float takes any number
ParseArgsDuration ==
    /\ pc = "parse"
    /\ \E dur \in (-MaxNeg)..MaxTarget, dates \in ArgDates :
        /\ target_duration' = dur
        /\ start_date' = dates[1]
        /\ end_date' = dates[2]
    /\ pc' = "main"
    /\ UNCHANGED << files_in, mp4_files, selected_files, idx, clips,
                    total_duration, skipped_count, disk, manifest, output,
                    error, req, last, clean >>

\* --duration omitted: the dates are parsed, the duration is asked for
ParseArgsNoDuration ==
    /\ pc = "parse"
    /\ \E dates \in ArgDates :
        /\ start_date' = dates[1]
        /\ end_date' = dates[2]
    /\ pc' = "prompt"
    /\ UNCHANGED << target_duration, files_in, mp4_files, selected_files, idx,
                    clips, total_duration, skipped_count, disk, manifest,
                    output, error, req, last, clean >>

\* one round of get_user_input's loop with validate_duration
PromptDuration ==
    /\ pc = "prompt"
    /\ \E typed \in TypedInputs :
        IF validate_duration(WithDefault(typed))
        THEN /\ target_duration' = WithDefault(typed).val
             /\ pc' = "main"
        ELSE UNCHANGED << target_duration, pc >>
    /\ UNCHANGED << start_date, end_date, files_in, mp4_files, selected_files,
                    idx, clips, total_duration, skipped_count, disk, manifest,
                    output, error, req, last, clean >>

---------------------------------------------------------------------------
(* main(): scanning, filtering and sampling. *)

avg_clip_duration == (ClipMin + ClipMax) \div 2

estimated_clips_needed(target) == IntTrunc(target, avg_clip_duration) + 1

num_files_to_select(target, pool) == Min(estimated_clips_needed(target), Len(pool))

Range(s) == { s[i] : i \in 1..Len(s) }

\* variant: positions drawn with replacement, as random.choices does
random_sample_with_replacement(pool, n) ==
    { [i \in 1..n |-> pool[pos[i]]] : pos \in [1..n -> 1..Len(pool)] }

\* random.sample(pool, n): n positions of pool, no position twice, in any order
random_sample(pool, n) ==
    { [i \in 1..n |-> pool[pos[i]]] :
        pos \in { q \in [1..n -> 1..Len(pool)] :
                    \A i, j \in 1..n : i # j => q[i] # q[j] } }

Fail(msg) ==
    /\ pc' = "failed"
    /\ error' = msg

GetFiles ==
    /\ pc = "main"
    /\ \E k \in 0..MaxFiles :
        LET found == Listing(k)
            pool == IF start_date # NoDate \/ end_date # NoDate
                    THEN filter_files_by_date_range(found, start_date, end_date)
                    ELSE found
            n == num_files_to_select(target_duration, pool)
        IN  /\ files_in' = found
            /\ IF found = << >>
               THEN /\ Fail("No matching MP4 files found")
                    /\ UNCHANGED << mp4_files, selected_files >>
               ELSE IF pool = << >>
               THEN /\ Fail("No files match the specified date range")
                    /\ mp4_files' = pool
                    /\ UNCHANGED selected_files
               ELSE IF n < 0
               THEN /\ Fail("Sample larger than population or is negative")
                    /\ mp4_files' = pool
                    /\ UNCHANGED selected_files
               ELSE /\ mp4_files' = pool
                    /\ selected_files' \in random_sample(pool, n)
                    /\ pc' = IF n = 0 THEN "post" ELSE "loop"
                    /\ UNCHANGED error
    /\ UNCHANGED << target_duration, start_date, end_date, idx, clips,
                    total_duration, skipped_count, disk, manifest, output,
                    req, last, clean >>

---------------------------------------------------------------------------
(* The planning loop of main() with get_random_clip. *)

\* what ffprobe can answer for a source file
ProbeResults == { Unknown } \cup (ClipMin - 1)..MaxSourceDur

\* get_random_clip goes on to extract: the duration is known and long enough
CanExtract(video_duration) ==
    video_duration # Unknown /\ ~(video_duration < ClipMin)

\* variant: the drawn length is not clamped to the source
ClipLengthUnclamped(drawn, video_duration) == drawn

\* clip_duration = min(random.uniform(3, 5), video_duration)
ClipLength(drawn, video_duration) == Min(drawn, video_duration)

max_start_time(video_duration, clip_duration) == video_duration - clip_duration

\* random.uniform(0, m) = 0 + (m - 0) * random(): between 0 and m, whichever
\* is the larger
Uniform0(m) == IF m >= 0 THEN 0..m ELSE m..0

\* the real durations a clip requested with length len can come out with
ActualDurs(len) == { a \in (len - Jitter)..(len + Jitter) : a >= 1 }

\* get_video_duration(clip), called for an accepted clip only: None, or the
\* clip's real duration
Remeasured(accepted, len) ==
    IF accepted THEN { Unknown } \cup ActualDurs(len) ELSE { Unknown }

\* Python truthiness of get_video_duration(clip): None and 0.0 are false
Truthy(measured) == measured # Unknown /\ measured # 0

\* variant: the loop goes on when the total equals the target
BreakNowStrict(total, target) == total > target

\* the break at the end of the loop body
BreakNow(total, target) == total >= target

\* variant: a skipped file is not counted
SkippedAfterUncounted(count, accepted) == count

\* skipped_count after an iteration
SkippedAfter(count, accepted) == IF accepted THEN count ELSE count + 1

\* the temp file after ffmpeg ran and get_random_clip reacted: a failed or
\* raising run has the file removed, a successful one leaves what ffmpeg wrote
FileAfterExtract(rc, written) == IF rc = "ok" THEN written ELSE "absent"

\* get_random_clip returns temp_clip: ffmpeg succeeded, the file exists and
\* is not empty
ClipReturned(rc, written) == rc = "ok" /\ written = "clip"

\* the rest of one iteration of the for loop, once get_random_clip returned
Iterate(accepted, name, measured, how) ==
    LET total == IF accepted /\ Truthy(measured)
                 THEN total_duration + measured
                 ELSE total_duration
    IN  /\ clips' = IF accepted THEN Append(clips, name) ELSE clips
        /\ total_duration' = total
        /\ skipped_count' = SkippedAfter(skipped_count, accepted)
        /\ idx' = idx + 1
        /\ pc' = IF BreakNow(total, target_duration) \/ idx + 1 = Len(selected_files)
                 THEN "post"
                 ELSE "loop"
        /\ last' = how
        /\ req' = NoReq

\* get_random_clip up to the point where ffmpeg is started: the probe, the
\* two early returns, and the drawn length, start and temp name
ProbeSource ==
    /\ pc = "loop"
    /\ \E d \in ProbeResults :
        IF CanExtract(d)
        THEN /\ \E drawn \in ClipMin..ClipMax, name \in TempNames :
                 LET len == ClipLength(drawn, d)
                 IN  \E start \in Uniform0(max_start_time(d, len)) :
                         req' = [d |-> d, len |-> len, start |-> start,
                                 name |-> name]
             /\ pc' = "extract"
             /\ UNCHANGED << idx, clips, total_duration, skipped_count, last,
                             clean >>
        ELSE /\ Iterate(FALSE, RandIntLo, Unknown,
                        IF d = Unknown THEN "probe_failed" ELSE "too_short")
             /\ clean' = FALSE
    /\ UNCHANGED << target_duration, start_date, end_date, files_in, mp4_files,
                    selected_files, disk, manifest, output, error >>

\* ffmpeg runs on the request; get_random_clip returns; the loop body ends
ExtractClip ==
    /\ pc = "extract"
    /\ \E rc \in { "ok", "error", "raise" }, written \in { "absent", "empty", "clip" } :
        LET accepted == ClipReturned(rc, written)
        IN  \E measured \in Remeasured(accepted, req.len) :
                /\ disk' = [disk EXCEPT ![req.name] = FileAfterExtract(rc, written)]
                /\ Iterate(accepted, req.name, measured,
                           IF accepted THEN "accepted"
                           ELSE IF rc = "ok" THEN "empty_output"
                           ELSE "extract_failed")
                /\ clean' = (clean /\ accepted /\ measured = req.len)
    /\ UNCHANGED << target_duration, start_date, end_date, files_in, mp4_files,
                    selected_files, manifest, output, error >>

\* after the loop: no clip at all is an error, otherwise compile_clips is called
AfterLoop ==
    /\ pc = "post"
    /\ IF clips = << >>
       THEN Fail("No valid clips were generated")
       ELSE pc' = "compile" /\ UNCHANGED error
    /\ UNCHANGED << target_duration, start_date, end_date, files_in, mp4_files,
                    selected_files, idx, clips, total_duration, skipped_count,
                    disk, manifest, output, req, last, clean >>

---------------------------------------------------------------------------
(* compile_clips. *)

\* the finally block: every listed clip that exists is removed
CleanedDisk(list) ==
    [n \in DOMAIN disk |-> IF n \in Range(list) THEN "absent" ELSE disk[n]]

\* clips.txt is written before the try block is entered
WriteManifest ==
    /\ pc = "compile"
    /\ \/ /\ manifest' = clips
          /\ pc' = "concat"
          /\ UNCHANGED error
       \/ /\ manifest' \in { NoManifest, << >> }
          /\ Fail("cannot write clips.txt")
    /\ UNCHANGED << target_duration, start_date, end_date, files_in, mp4_files,
                    selected_files, idx, clips, total_duration, skipped_count,
                    disk, output, req, last, clean >>

\* the try block with ffmpeg's concat, and the finally block after it
Concat ==
    /\ pc = "concat"
    /\ \E rc \in { "ok", "error" }, out \in { "absent", "empty", "ok" } :
        /\ output' = out
        /\ IF rc # "ok" THEN Fail("Failed to compile clips")
           ELSE IF out # "ok" THEN Fail("Output file is missing or empty")
           ELSE pc' = "done" /\ UNCHANGED error
    /\ manifest' = NoManifest
    /\ disk' = CleanedDisk(clips)
    /\ UNCHANGED << target_duration, start_date, end_date, files_in, mp4_files,
                    selected_files, idx, clips, total_duration, skipped_count,
                    req, last, clean >>

---------------------------------------------------------------------------
(* KeyboardInterrupt: caught by the handler at the bottom, which prints. *)

\* Ctrl-C anywhere outside compile_clips' try block, no subprocess writing
Interrupt ==
    /\ pc \in { "parse", "prompt", "main", "loop", "post", "compile" }
    /\ pc' = "cancelled"
    /\ UNCHANGED << target_duration, start_date, end_date, files_in, mp4_files,
                    selected_files, idx, clips, total_duration, skipped_count,
                    disk, manifest, output, error, req, last, clean >>

\* Ctrl-C while get_random_clip's ffmpeg is writing temp_clip
InterruptExtract ==
    /\ pc = "extract"
    /\ \E written \in { "absent", "empty", "clip" } :
        disk' = [disk EXCEPT ![req.name] = written]
    /\ pc' = "cancelled"
    /\ req' = NoReq
    /\ UNCHANGED << target_duration, start_date, end_date, files_in, mp4_files,
                    selected_files, idx, clips, total_duration, skipped_count,
                    manifest, output, error, last, clean >>

\* Ctrl-C inside compile_clips' try block: the finally block still runs
InterruptConcat ==
    /\ pc = "concat"
    /\ pc' = "cancelled"
    /\ output' \in { "absent", "empty" }
    /\ manifest' = NoManifest
    /\ disk' = CleanedDisk(clips)
    /\ UNCHANGED << target_duration, start_date, end_date, files_in, mp4_files,
                    selected_files, idx, clips, total_duration, skipped_count,
                    error, req, last, clean >>

---------------------------------------------------------------------------
(* The whole program. *)

Next ==
    \/ ParseArgsDuration
    \/ ParseArgsNoDuration
    \/ PromptDuration
    \/ GetFiles
    \/ ProbeSource
    \/ ExtractClip
    \/ AfterLoop
    \/ WriteManifest
    \/ Concat
    \/ Interrupt
    \/ InterruptExtract
    \/ InterruptConcat

Spec == Init /\ [][Next]_vars

---------------------------------------------------------------------------
(* The date filter on its own, over a wider set of names and bounds. *)

InitFilter ==
    /\ pc = "filter"
    /\ files_in \in SeqsUpTo(FilterNames, MaxFilterLen)
    /\ start_date \in FilterBounds
    /\ end_date \in FilterBounds
    /\ Blank

\* mp4_files = filter_files_by_date_range(mp4_files, start_date, end_date)
FilterCall ==
    /\ pc = "filter"
    /\ mp4_files' = filter_files_by_date_range(files_in, start_date, end_date)
    /\ pc' = "filtered"
    /\ UNCHANGED << target_duration, start_date, end_date, files_in,
                    selected_files, idx, clips, total_duration, skipped_count,
                    disk, manifest, output, error, req, last, clean >>

NextFilter == FilterCall

SpecFilter == InitFilter /\ [][NextFilter]_vars

---------------------------------------------------------------------------
(* Properties. *)

AllAbsent == \A n \in DOMAIN disk : disk[n] = "absent"

NoRepeat(q) == \A i, j \in 1..Len(q) : i # j => q[i] # q[j]

\* ceil(a / b) for b > 0
Ceil(a, b) == -((-a) \div b)

SkipKinds == { "probe_failed", "too_short", "extract_failed", "empty_output" }

\* a step that ends one iteration of the for loop
EndsIteration == pc \in { "loop", "extract" } /\ idx' = idx + 1

\* C1: with a positive target, a pool at least as large as the estimate, and
\* every sampled file at least 3s long, probed, extracted and re-measured as
\* requested, the clips handed to compile_clips total at least the target;
\* and 'No valid clips' is raised only when every sampled file was skipped.
C1_TotalReachesTarget ==
    /\ (pc = "compile" /\ target_duration > 0 /\ clean
          /\ Len(mp4_files) >= estimated_clips_needed(target_duration))
         => (clips # << >> /\ total_duration >= target_duration)
    /\ error = "No valid clips were generated"
         => skipped_count = Len(selected_files)

\* C2: once a run with a positive target has ended, in success or in
\* failure, no temp_clip_*.mp4 and no clips.txt is left on disk.
C2_NothingLeftAfterRun ==
    (pc \in { "done", "failed" } /\ target_duration > 0)
        => (AllAbsent /\ manifest = NoManifest)

\* C3: once a run with a positive target was cancelled by KeyboardInterrupt,
\* every clip file that had been created and accepted is gone.
C3_InterruptCleansUp ==
    (pc = "cancelled" /\ target_duration > 0)
        => \A i \in 1..Len(clips) : disk[clips[i]] = "absent"

\* C4 is checked on the names of Gens: these are the calendar dates among them
ValidGens ==
    { << 2024, 2, 27 >>, << 2024, 2, 28 >>, << 2024, 2, 29 >>, << 2024, 3, 1 >>,
      << 2023, 2, 28 >>, << 2024, 4, 30 >>, << 2000, 2, 29 >> }

DateKey(g) == g[1] * 10000 + g[2] * 100 + g[3]

\* the path is a file named after the calendar date g
NamedAfter(path, g) ==
    \/ path = DatedName(g)
    \/ path = << "d", "/" >> \o DatedName(g)
    \/ path = Digits8(g)

OutOfRange(path) ==
    \E g \in ValidGens :
        /\ NamedAfter(path, g)
        /\ \/ start_date # NoDate /\ DateKey(g) < DateKey(start_date)
           \/ end_date # NoDate /\ DateKey(g) > DateKey(end_date)

InRange(path) == ~OutOfRange(path)

\* C4: the filter's output is its input, in order, without exactly the files
\* whose name starts with a calendar date strictly before start_date or
\* strictly after end_date; files without a date, with digits that are no
\* date, or dated on a bound are kept, and a missing bound drops nothing.
C4_FilterDropsOnlyOutOfRange ==
    pc = "filtered" => mp4_files = SelectSeq(files_in, InRange)

C4_Witness ==
    /\ pc = "filtered"
    /\ start_date = << 2024, 2, 29 >>
    /\ end_date = NoDate
    /\ files_in = << DatedName(<< 2024, 2, 28 >>), DatedName(<< 2024, 2, 29 >>) >>
    /\ mp4_files = << DatedName(<< 2024, 2, 29 >>) >>

SkipStep ==
    (EndsIteration /\ last' \in SkipKinds)
        => /\ skipped_count' = skipped_count + 1
           /\ clips' = clips
           /\ total_duration' = total_duration
           /\ pc' \in { "loop", "post" }
           /\ (idx' < Len(selected_files) => pc' = "loop")

AcceptStep ==
    (EndsIteration /\ last' \notin SkipKinds)
        => /\ clips' = Append(clips, req.name)
           /\ skipped_count' = skipped_count
           /\ req.d # Unknown
           /\ req.d >= ClipMin

\* C5: an iteration that ends in a probe failure, a too short source, a
\* failed extraction or a missing or empty output adds one to the skip
\* count, leaves the accepted list and the running total as they were and
\* does not end the run: the loop goes on when sampled files remain.  A clip
\* is accepted only from a source of known duration of at least 3s.
C5_SkipLeavesPlanUntouched == [][SkipStep /\ AcceptStep]_vars

C5_Witness ==
    /\ pc = "loop"
    /\ last \in SkipKinds
    /\ idx = 1
    /\ skipped_count = 1
    /\ clips = << >>
    /\ total_duration = 0

\* C6: no file is sampled for a target duration that is zero or negative.
C6_TargetPositive ==
    selected_files # << >> => target_duration > 0

\* C7: every extraction requested has a source of known duration d >= 3, a
\* length within [3, min(5, d)] and a start within [0, d - length], so that
\* start + length <= d.
C7_RequestWithinSource ==
    pc = "extract" =>
        /\ req.d # Unknown
        /\ req.d >= ClipMin
        /\ ClipMin <= req.len
        /\ req.len <= ClipMax
        /\ req.len <= req.d
        /\ 0 <= req.start
        /\ req.start <= req.d - req.len
        /\ req.start + req.len <= req.d

C7_Witness ==
    /\ pc = "extract"
    /\ req.d = 4
    /\ req.len = 4
    /\ req.start = 0

ExitRule ==
    EndsIteration
        => /\ pc' \in { "loop", "post" }
           /\ pc' = "post" <=> (total_duration' >= target_duration
                                  \/ idx' = Len(selected_files))

LoopExits ==
    pc \in { "loop", "extract" } => pc' \in { "loop", "extract", "post", "cancelled" }

PlanFrozen ==
    pc \in { "post", "compile", "concat" }
        => /\ clips' = clips
           /\ total_duration' = total_duration
           /\ idx' = idx

BelowTargetInLoop ==
    pc \in { "loop", "extract" }
        => /\ idx < Len(selected_files)
           /\ (idx > 0 => total_duration < target_duration)

ManifestIsPlan == pc = "concat" => manifest = clips

\* C8: the loop leaves for compile_clips exactly when the running total has
\* reached the target or the sampled list is exhausted, and goes on to the
\* next sampled file otherwise; it is never at a sampled file with the total
\* already at the target; after the loop the accepted list and the total do
\* not change, and clips.txt lists exactly the accepted clips.
C8_StopsAtTarget ==
    /\ [][ExitRule /\ LoopExits /\ PlanFrozen]_vars
    /\ [](BelowTargetInLoop /\ ManifestIsPlan)

C8_Witness ==
    /\ pc = "concat"
    /\ idx = 1
    /\ Len(selected_files) = 2
    /\ total_duration >= target_duration
    /\ manifest = clips

\* C9: the number of sampled files is at most ceil(target / 4) + 1 and at
\* most the pool size, and for a positive target it is floor(target / 4) + 1
\* capped at the pool size; the sampled files are pairwise distinct members
\* of the pool, so the files processed so far are pairwise distinct.
C9_SampleSizeAndDistinct ==
    pc \in { "loop", "extract", "post", "compile", "concat", "done" } =>
        /\ Len(selected_files) <= Ceil(target_duration, 4) + 1
        /\ Len(selected_files) <= Len(mp4_files)
        /\ target_duration > 0 =>
             Len(selected_files) = Min((target_duration \div 4) + 1, Len(mp4_files))
        /\ NoRepeat(selected_files)
        /\ Range(selected_files) \subseteq Range(mp4_files)
        /\ NoRepeat(SubSeq(selected_files, 1, idx))

C9_Witness ==
    /\ pc = "post"
    /\ idx = 2
    /\ Len(selected_files) = 2
    /\ Len(mp4_files) = 2
    /\ target_duration = 7

\* C10: in a run with a positive target the accepted clips are pairwise
\* distinct files, and while the plan is being built each of them is still
\* on disk as it was accepted.
C10_ClipsDistinct ==
    target_duration > 0 =>
        /\ NoRepeat(clips)
        /\ pc \in { "loop", "extract", "post", "compile" }
             => \A i \in 1..Len(clips) : disk[clips[i]] = "clip"

===========================================================================
